---- MODULE Spec2Model ----
(***************************************************************************)
(* A model of levanter's stateless pseudo-random permutation               *)
(* (levanter/data/_prp.py) and of the processed-audio cache front end      *)
(* (levanter/data/audio.py).                                               *)
(***************************************************************************)
EXTENDS Integers, Sequences, FiniteSets, TLC

VARIABLES
    lengths,    \* the lengths the caller constructs permutations with
    pc,         \* per Permutation object: "new", "loop" (inside __init__) or "frozen"
    length,     \* self.length
    prng_key,   \* self.prng_key
    a,          \* self._a
    b,          \* self._b
    key,        \* the key carried through jax.lax.while_loop
    iters,      \* how many times loop_body has run
    ret,        \* the outcome of the __call__ being returned
    ledger,     \* what is at cache_dir: "absent", "corrupt" or "present"
    status,     \* the ledger's state: "Building", "Finished" or "Failed"
    rows,       \* the ledger's committed length
    progress,   \* the ledger's committed item count per shard
    store,      \* the data files: the processed examples, in index order
    produced,   \* per shard, how many items its worker has processed
    buffer,     \* per shard, the processed chunk that waits for its commit
    wpc,        \* the writer: "idle", or "flush" between data and length record
    turn,       \* the shard whose chunk is next in the global order
    builder,    \* whether a background build is running
    awaiting,   \* whether build_or_load(await_finished=True) has not returned yet
    open,       \* whether a ProcessedAudioCache object has been returned
    loaded,     \* the outcome of the latest ProcessedAudioCache.load
    built,      \* the latest ProcessedAudioCache.build_or_load: pending or its outcome
    resumedFrom, \* the committed length at which the latest resumed build began, -1 if none
    cached,     \* the latest AudioIODatasetConfig.build_or_load_cache: how it ended
    rpc,        \* the reader's get_batch: "idle", "waiting" or "returned"
    rreq,       \* the indices of the reader's get_batch
    rres        \* the outcome of the reader's get_batch

permVars == <<lengths, pc, length, prng_key, a, b, key, iters, ret>>

builderVars == <<status, rows, progress, store, produced, buffer, wpc, turn, builder>>

readerVars == <<rpc, rreq, rres>>

cacheVars ==
    <<ledger, builderVars, awaiting, open, loaded, built, resumedFrom, cached, readerVars>>

vars == <<permVars, cacheVars>>

(***************************************************************************)
(* Bounds of the model.                                                    *)
(***************************************************************************)
MaxLen == 4
MaxSeed == 1
MaxIter == 6
MaxBatch == 2

Inst == {1, 2}

Seeds == 0..MaxSeed

SmallLengths == 1..MaxLen

\* Lengths for which a * index no longer fits 32 bits.
WideLengths == {2^16 + 1, 2^20, 2^30 - 1}

Two16 == 2^16

Two15 == 2^15

(***************************************************************************)
(* jax.random, as far as _prp.py uses it: keys are threaded explicitly,    *)
(* split and randint are functions of the key alone.                       *)
(***************************************************************************)
KeyMod == 2^8

Split(k) == <<(3 * k + 1) % KeyMod, (5 * k + 3) % KeyMod>>

\* The 31 random bits drawn under key k.
Bits(k) == ((((k * 7919 + 7) % 65521) * 32749) + k) % (2^30 + (2^30 - 1))

\* randint draws from [minval, maxval); an empty range yields minval.
RandintRange(minval, maxval) ==
    IF maxval <= minval THEN {minval} ELSE minval..(maxval - 1)

\* A generator that reads process-wide state (here: how many draws were made so
\* far by anyone) next to the key.
Randint_GlobalState(k, minval, maxval) ==
    IF maxval <= minval
    THEN minval
    ELSE minval + (Bits((k + iters[1] + iters[2]) % KeyMod) % (maxval - minval))

\* A generator whose upper end is inclusive.
Randint_Inclusive(k, minval, maxval) ==
    IF maxval < minval THEN minval ELSE minval + (Bits(k) % (maxval - minval + 1))

Randint(k, minval, maxval) ==
    IF maxval <= minval THEN minval ELSE minval + (Bits(k) % (maxval - minval))

RECURSIVE GCD(_, _)
GCD(x, y) == IF y = 0 THEN x ELSE GCD(y, x % y)

\* The docstring's reading of the loop: "a and b such that gcd(a, length) != 1".
LoopCond_Docstring(x, n) == GCD(x, n) = 1

\* cond of the while_loop: keep drawing while a is not invertible modulo length.
LoopCond(x, n) == GCD(x, n) # 1

(***************************************************************************)
(* Integer arithmetic.  A Python int is unbounded: AffineExact is the      *)
(* exact value of (a * x + b) % n, computed by doubling so that no         *)
(* intermediate of the evaluation leaves the checker's integers.  An       *)
(* int32 array element wraps modulo 2^32: AffineInt32 computes on 16-bit   *)
(* limbs <<high, low>> of the two's complement representation.             *)
(***************************************************************************)
RECURSIVE MulMod(_, _, _)
MulMod(x, y, n) ==
    IF y = 0
    THEN 0
    ELSE LET h == MulMod(x, y \div 2, n)
             d == (h + h) % n
         IN  IF y % 2 = 1 THEN (d + x) % n ELSE d

AffineExact(x, y, n, i) == (MulMod(x % n, i % n, n) + y) % n

Limbs(x) == <<(x \div Two16) % Two16, x % Two16>>

\* The 32-bit product of two 16-bit limbs, as limbs.
Mul16(p, q) ==
    LET p1 == p \div 256
        p0 == p % 256
        q1 == q \div 256
        q0 == q % 256
        cross == p1 * q0 + p0 * q1
        t == p0 * q0 + (cross % 256) * 256
    IN  <<(p1 * q1 + (cross \div 256) + (t \div Two16)) % Two16, t % Two16>>

WrapMul32(u, v) ==
    LET ll == Mul16(u[2], v[2])
        mid == (Mul16(u[1], v[2])[2] + Mul16(u[2], v[1])[2]) % Two16
    IN  <<(ll[1] + mid) % Two16, ll[2]>>

WrapAdd32(u, v) ==
    LET lo == u[2] + v[2]
    IN  <<(u[1] + v[1] + (lo \div Two16)) % Two16, lo % Two16>>

ToSigned(u) == (IF u[1] >= Two15 THEN u[1] - Two16 ELSE u[1]) * Two16 + u[2]

\* (a * x + b) % n on int32 elements; % takes the sign of the divisor.
AffineInt32(x, y, n, i) ==
    ToSigned(WrapAdd32(WrapMul32(Limbs(x), Limbs(i)), Limbs(y))) % n

\* An int64 element holds a * x + b exactly for every length below 2^31.
Affine(x, y, n, i, w) ==
    IF w = 32 THEN AffineInt32(x, y, n, i) ELSE AffineExact(x, y, n, i)

(***************************************************************************)
(* Permutation.__call__                                                    *)
(***************************************************************************)
Widths == {32, 64}

\* A bounds check that forgets the negative side.
OutOfBounds_UpperOnly(i, n) == i >= n

OutOfBounds(i, n) == i < 0 \/ i >= n

AnyOutOfBounds(xs, n) == \E k \in 1..Len(xs) : OutOfBounds(xs[k], n)

Raised(e) == [outcome |-> e, value |-> <<>>]

Returned(v) == [outcome |-> "ok", value |-> v]

CallScalar(x, y, n, i) ==
    IF OutOfBounds(i, n) THEN Raised("IndexError") ELSE Returned(AffineExact(x, y, n, i))

CallBatch(x, y, n, xs, w) ==
    IF AnyOutOfBounds(xs, n)
    THEN Raised("IndexError")
    ELSE Returned([k \in 1..Len(xs) |-> Affine(x, y, n, xs[k], w)])

\* The indices the model calls with: all of -1..n for a short permutation, and
\* the ends and the middle of a long one.
IndexSamples(n) ==
    IF n <= MaxLen + 1 THEN -1..n ELSE {-1, 0, 1, n \div 2, n - 1, n}

BatchSamples(n) ==
    UNION {[1..m -> IndexSamples(n)] : m \in 0..MaxBatch}

NoCall == [inst |-> 0, form |-> "none", width |-> 0, arg |-> <<>>, result |-> Raised("none")]

(***************************************************************************)
(* Actions                                                                 *)
(***************************************************************************)
InitPerm ==
    /\ pc = [i \in Inst |-> "new"]
    /\ length = [i \in Inst |-> 0]
    /\ prng_key = [i \in Inst |-> 0]
    /\ a = [i \in Inst |-> 0]
    /\ b = [i \in Inst |-> 0]
    /\ key = [i \in Inst |-> 0]
    /\ iters = [i \in Inst |-> 0]
    /\ ret = NoCall

\* The caller is one Python thread: __init__ and __call__ run to completion
\* before the next operation starts.
Idle == (\A i \in Inst : pc[i] # "loop") /\ ret = NoCall

\* __init__ up to the while_loop.
Construct(i, n, k) ==
    /\ Idle
    /\ pc[i] = "new"
    /\ LET a_key == Split(k)[1]
           b_key == Split(k)[2]
       IN  /\ length' = [length EXCEPT ![i] = n]
           /\ prng_key' = [prng_key EXCEPT ![i] = k]
           /\ a' = [a EXCEPT ![i] = Randint(a_key, 1, n)]
           /\ b' = [b EXCEPT ![i] = Randint(b_key, 0, n)]
           /\ key' = [key EXCEPT ![i] = a_key]
    /\ pc' = [pc EXCEPT ![i] = "loop"]
    /\ UNCHANGED <<lengths, iters, ret>>
    /\ UNCHANGED cacheVars

\* One iteration of the while_loop: cond holds, loop_body redraws a.
LoopBody(i) ==
    /\ pc[i] = "loop"
    /\ LoopCond(a[i], length[i])
    /\ iters[i] < MaxIter
    /\ LET this_key == Split(key[i])[1]
       IN  /\ a' = [a EXCEPT ![i] = Randint(this_key, 1, length[i])]
           /\ key' = [key EXCEPT ![i] = Split(key[i])[2]]
    /\ iters' = [iters EXCEPT ![i] = @ + 1]
    /\ UNCHANGED <<lengths, pc, length, prng_key, b, ret>>
    /\ UNCHANGED cacheVars

\* cond fails: the loop ends and a, b are frozen as plain integers.
LoopExit(i) ==
    /\ pc[i] = "loop"
    /\ ~LoopCond(a[i], length[i])
    /\ pc' = [pc EXCEPT ![i] = "frozen"]
    /\ UNCHANGED <<lengths, length, prng_key, a, b, key, iters, ret>>
    /\ UNCHANGED cacheVars

ScalarCall(i) ==
    /\ Idle
    /\ pc[i] = "frozen"
    /\ \E x \in IndexSamples(length[i]) :
          ret' = [inst |-> i, form |-> "scalar", width |-> 0, arg |-> <<x>>,
                  result |-> CallScalar(a[i], b[i], length[i], x)]
    /\ UNCHANGED <<lengths, pc, length, prng_key, a, b, key, iters>>
    /\ UNCHANGED cacheVars

BatchCall(i) ==
    /\ Idle
    /\ pc[i] = "frozen"
    /\ \E xs \in BatchSamples(length[i]), w \in Widths :
          ret' = [inst |-> i, form |-> "batch", width |-> w, arg |-> xs,
                  result |-> CallBatch(a[i], b[i], length[i], xs, w)]
    /\ UNCHANGED <<lengths, pc, length, prng_key, a, b, key, iters>>
    /\ UNCHANGED cacheVars

\* The caller takes the result (or catches the exception).
Return ==
    /\ ret # NoCall
    /\ ret' = NoCall
    /\ UNCHANGED <<lengths, pc, length, prng_key, a, b, key, iters>>
    /\ UNCHANGED cacheVars

(***************************************************************************)
(* The cache.  TreeCache and build_or_load_cache (levanter/store/cache.py) *)
(* are modelled after sections 3, 4.3, 4.4 and 5 to 7 of the              *)
(* specification, a crash of the process and a resumed build included;     *)
(* ProcessedAudioCache, its load and its build_or_load are audio.py.       *)
(***************************************************************************)
ShardLen == 3
ChunkSize == 2
MaxReq == 2

Shards == {1, 2}

NumShards == Cardinality(Shards)

TotalItems == NumShards * ShardLen

NumChunks == (ShardLen + ChunkSize - 1) \div ChunkSize

\* The processor's output for item k of shard s.
Processed(s, k) == <<"example", s, k>>

\* A worker that hands over the items of a chunk last item first.
Chunk_Reversed(s, c) ==
    LET first == c * ChunkSize + 1
        last == IF first + ChunkSize - 1 < ShardLen THEN first + ChunkSize - 1 ELSE ShardLen
    IN  [j \in 1..(last - first + 1) |-> Processed(s, last - j + 1)]

\* Chunk c (from 0) of shard s, processed.
Chunk(s, c) ==
    LET first == c * ChunkSize + 1
        last == IF first + ChunkSize - 1 < ShardLen THEN first + ChunkSize - 1 ELSE ShardLen
    IN  [j \in 1..(last - first + 1) |-> Processed(s, first + j - 1)]

\* The source item <<shard, position>> of global index i (from 0): chunks are
\* committed round robin over the shards.
ItemAt(i) ==
    LET roundSize == NumShards * ChunkSize
        r == IF i \div roundSize < NumChunks - 1 THEN i \div roundSize ELSE NumChunks - 1
        csz == IF r = NumChunks - 1 THEN ShardLen - r * ChunkSize ELSE ChunkSize
        off == i - r * roundSize
    IN  <<(off \div csz) + 1, r * ChunkSize + (off % csz) + 1>>

Suspended == [outcome |-> "suspended", value |-> <<>>]

TreeCache_current_len == rows

TreeCache_final_length_is_known == status = "Finished"

TreeCache_is_finite == TRUE

TreeCache_async_len ==
    IF status = "Finished" THEN Returned(rows)
    ELSE IF status = "Failed" THEN Raised("ProcessingFailure")
    ELSE Suspended

TreeCache_get_batch(indices) ==
    IF \A k \in 1..Len(indices) : indices[k] < rows
    THEN Returned([k \in 1..Len(indices) |-> store[indices[k] + 1]])
    ELSE IF status = "Finished" THEN Raised("IndexError")
    ELSE IF status = "Failed" THEN Raised("ProcessingFailure")
    ELSE Suspended

\* TreeCache.load opens a cache without a source or a processor, so it opens
\* what needs no further build: a ledger that is not finished is reported as
\* FileNotFoundError ("is not a complete cache" in ProcessedAudioCache.load),
\* on which AudioIODatasetConfig.build_or_load_cache turns to build_or_load.
TreeCache_load ==
    IF ledger = "absent" THEN Raised("FileNotFoundError")
    ELSE IF ledger = "corrupt" THEN Raised("CorruptionError")
    ELSE IF status # "Finished" THEN Raised("FileNotFoundError")
    ELSE Returned("TreeCache")

\* ProcessedAudioCache.__init__
ProcessedAudioCache(cache) == [cache |-> cache]

\* A wrapper whose async_len answers with the current length.
async_len_Current == Returned(TreeCache_current_len)

async_len == TreeCache_async_len

final_length_is_known == TreeCache_final_length_is_known

is_finite == TreeCache_is_finite

\* A wrapper that reports a length only while the build runs.
current_len_WhileBuilding == IF status = "Building" THEN TreeCache_current_len ELSE 0

current_len == TreeCache_current_len

\* A wrapper that clamps every index to the last committed one.
get_batch_Clamped(indices) ==
    TreeCache_get_batch([k \in 1..Len(indices) |->
        IF indices[k] >= rows /\ rows > 0 THEN rows - 1 ELSE indices[k]])

\* A wrapper that waits again when the cache reports the failed build.
get_batch_RetryOnFailure(indices) ==
    LET r == TreeCache_get_batch(indices)
    IN  IF r.outcome = "ProcessingFailure" THEN Suspended ELSE r

\* A wrapper that fetches the indices in sorted order.
get_batch_Sorted(indices) == TreeCache_get_batch(SortSeq(indices, LAMBDA x, y : x < y))

get_batch(indices) == TreeCache_get_batch(indices)

\* A load that swallows the missing ledger and returns None.
load_Swallow ==
    LET r == TreeCache_load
    IN  IF r.outcome = "ok" THEN Returned(ProcessedAudioCache(r.value)) ELSE Returned("None")

\* A load that reports every failure as a missing cache.
load_AllNotFound ==
    LET r == TreeCache_load
    IN  IF r.outcome = "ok"
        THEN Returned(ProcessedAudioCache(r.value))
        ELSE Raised("FileNotFoundError")

\* ProcessedAudioCache.load: FileNotFoundError is raised anew with its own
\* message, any other exception is logged and raised again.
load ==
    LET r == TreeCache_load
    IN  IF r.outcome = "ok" THEN Returned(ProcessedAudioCache(r.value))
        ELSE IF r.outcome = "FileNotFoundError" THEN Raised("FileNotFoundError")
        ELSE Raised(r.outcome)

NoLoad == [seen |-> "none", result |-> Raised("none")]

NoResult == Raised("none")

\* build_or_load: not called, "pending" while it waits for the end of the
\* build, or its outcome.
NoBuild == [await |-> FALSE, state |-> "none", result |-> Raised("none")]

PendingBuild == [await |-> TRUE, state |-> "pending", result |-> Raised("none")]

BuildReturned(w) ==
    [await |-> w, state |-> "returned", result |-> Returned(ProcessedAudioCache("TreeCache"))]

BuildRaised(w, e) == [await |-> w, state |-> "raised", result |-> Raised(e)]

\* A build_or_load that hands await_finished=False to build_or_load_cache,
\* whatever its caller asked for.
PassedAwait_Dropped(await_finished) == FALSE

\* build_or_load hands its await_finished on to build_or_load_cache.
PassedAwait(await_finished) == await_finished

\* The caller makes one call at a time and keeps the outcome of the latest one
\* only; a build_or_load that waits for the end of the build stays pending.
Forgotten(call) == IF call.state = "pending" THEN call ELSE NoBuild

\* AudioIODatasetConfig.build_or_load_cache: not called, or the place it
\* returned or raised from: "load" (the try), "source" (get_shard_source) or
\* "build" (build_or_load).
NoCached == [via |-> "none", split |-> "none", source |-> "none"]

Requests == UNION {[1..m -> 0..TotalItems] : m \in 1..MaxReq}

InitCache(l) ==
    /\ ledger = l
    /\ status = "None"
    /\ rows = 0
    /\ progress = [s \in Shards |-> 0]
    /\ store = <<>>
    /\ produced = [s \in Shards |-> 0]
    /\ buffer = [s \in Shards |-> <<>>]
    /\ wpc = "idle"
    /\ turn = 1
    /\ builder = FALSE
    /\ awaiting = FALSE
    /\ open = FALSE
    /\ loaded = NoLoad
    /\ built = NoBuild
    /\ resumedFrom = -1
    /\ cached = NoCached
    /\ rpc = "idle"
    /\ rreq = <<>>
    /\ rres = NoResult

\* build_or_load where no durable state exists: a fresh background build starts;
\* the object is returned at once unless await_finished.
StartBuild(await_finished) ==
    /\ ledger = "absent"
    /\ ~builder
    /\ ledger' = "present"
    /\ status' = "Building"
    /\ builder' = TRUE
    /\ awaiting' = PassedAwait(await_finished)
    /\ open' = (open \/ ~PassedAwait(await_finished))
    /\ built' = IF PassedAwait(await_finished)
                THEN PendingBuild
                ELSE BuildReturned(await_finished)
    /\ UNCHANGED <<rows, progress, store, produced, buffer, wpc, turn, readerVars>>
    /\ loaded' = NoLoad
    /\ UNCHANGED resumedFrom
    /\ UNCHANGED permVars

\* build_or_load where the durable state is a Finished cache: opened directly.
OpenFinished ==
    /\ ledger = "present"
    /\ status = "Finished"
    /\ ~open
    /\ open' = TRUE
    /\ \E await_finished \in BOOLEAN : built' = BuildReturned(await_finished)
    /\ UNCHANGED <<ledger, builderVars, awaiting, readerVars>>
    /\ loaded' = NoLoad
    /\ UNCHANGED resumedFrom
    /\ UNCHANGED permVars

\* A worker runs the processor over the next chunk of its shard.
ProcessChunk(s) ==
    /\ builder
    /\ status = "Building"
    /\ buffer[s] = <<>>
    /\ produced[s] < ShardLen
    /\ LET c == Chunk(s, produced[s] \div ChunkSize)
       IN  /\ buffer' = [buffer EXCEPT ![s] = c]
           /\ produced' = [produced EXCEPT ![s] = @ + Len(c)]
    /\ UNCHANGED <<ledger, status, rows, progress, store, wpc, turn, builder>>
    /\ UNCHANGED <<awaiting, open, loaded, readerVars>>
    /\ UNCHANGED built
    /\ UNCHANGED resumedFrom
    /\ UNCHANGED cached
    /\ UNCHANGED permVars

\* The processor raises on a chunk: the cache is marked Failed, what was
\* committed stays; a build_or_load that waits for the end raises.
ProcessorFails(s) ==
    /\ builder
    /\ status = "Building"
    /\ buffer[s] = <<>>
    /\ produced[s] < ShardLen
    /\ status' = "Failed"
    /\ builder' = FALSE
    /\ awaiting' = FALSE
    /\ built' = IF awaiting THEN BuildRaised(TRUE, "ProcessingFailure") ELSE built
    /\ UNCHANGED <<ledger, rows, progress, store, produced, buffer, wpc, turn>>
    /\ UNCHANGED <<open, loaded, readerVars>>
    /\ UNCHANGED resumedFrom
    /\ UNCHANGED cached
    /\ UNCHANGED permVars

\* A writer whose first write is the length record: the ledger counts the
\* chunk before its data is in the data files.
WriteData_LedgerFirst ==
    /\ builder
    /\ status = "Building"
    /\ wpc = "idle"
    /\ buffer[turn] # <<>>
    /\ rows' = rows + Len(buffer[turn])
    /\ wpc' = "flush"
    /\ UNCHANGED <<ledger, status, store, progress, produced, buffer, turn, builder>>
    /\ UNCHANGED <<awaiting, open, loaded, built, resumedFrom, readerVars>>
    /\ UNCHANGED cached
    /\ UNCHANGED permVars

\* The writer appends the chunk whose turn it is to the data files.
WriteData ==
    /\ builder
    /\ status = "Building"
    /\ wpc = "idle"
    /\ buffer[turn] # <<>>
    /\ store' = store \o buffer[turn]
    /\ wpc' = "flush"
    /\ UNCHANGED <<ledger, status, rows, progress, produced, buffer, turn, builder>>
    /\ UNCHANGED <<awaiting, open, loaded, readerVars>>
    /\ UNCHANGED built
    /\ UNCHANGED resumedFrom
    /\ UNCHANGED cached
    /\ UNCHANGED permVars

NextTurn(s) == IF s = NumShards THEN 1 ELSE s + 1

\* The writer records the new length: only now are the chunk's indices committed.
UpdateLedger ==
    /\ builder
    /\ status = "Building"
    /\ wpc = "flush"
    /\ rows' = Len(store)
    /\ progress' = [progress EXCEPT ![turn] = @ + Len(buffer[turn])]
    /\ buffer' = [buffer EXCEPT ![turn] = <<>>]
    /\ turn' = NextTurn(turn)
    /\ wpc' = "idle"
    /\ UNCHANGED <<ledger, status, store, produced, builder>>
    /\ UNCHANGED <<awaiting, open, loaded, readerVars>>
    /\ UNCHANGED built
    /\ UNCHANGED resumedFrom
    /\ UNCHANGED cached
    /\ UNCHANGED permVars

\* Every shard is committed to its end: the cache is Finished, and a
\* build_or_load that waited returns the object.
Finish ==
    /\ builder
    /\ status = "Building"
    /\ wpc = "idle"
    /\ \A s \in Shards : progress[s] = ShardLen
    /\ status' = "Finished"
    /\ builder' = FALSE
    /\ awaiting' = FALSE
    /\ open' = (open \/ awaiting)
    /\ built' = IF awaiting THEN BuildReturned(TRUE) ELSE built
    /\ UNCHANGED <<ledger, rows, progress, store, produced, buffer, wpc, turn>>
    /\ UNCHANGED <<loaded, readerVars>>
    /\ UNCHANGED resumedFrom
    /\ UNCHANGED cached
    /\ UNCHANGED permVars

\* What the data files may hold after the process stopped: the flushed data,
\* and any part of a chunk whose write had begun.
TornStores ==
    IF wpc = "flush"
    THEN {store}
    ELSE {store \o SubSeq(buffer[turn], 1, n) : n \in 0..Len(buffer[turn])}

\* The process stops while the build runs: the builder, its workers' buffers,
\* the objects and the readers are gone; what stays is what was flushed: the
\* ledger with its length and per-shard positions, and the data files, which
\* may hold a chunk the ledger does not cover yet.
Crash ==
    /\ builder
    /\ status = "Building"
    /\ store' \in TornStores
    /\ builder' = FALSE
    /\ produced' = progress
    /\ buffer' = [s \in Shards |-> <<>>]
    /\ wpc' = "idle"
    /\ awaiting' = FALSE
    /\ open' = FALSE
    /\ loaded' = NoLoad
    /\ built' = NoBuild
    /\ rpc' = "idle"
    /\ rreq' = <<>>
    /\ rres' = NoResult
    /\ UNCHANGED <<ledger, status, rows, progress, turn>>
    /\ UNCHANGED resumedFrom
    /\ cached' = NoCached
    /\ UNCHANGED permVars

\* A resumed build that keeps whatever the data files hold.
RecoveredStore_KeepTorn == store

\* Recovery replays the ledger, never the data: what the data files hold
\* beyond the recorded length is dropped.
RecoveredStore == SubSeq(store, 1, rows)

\* build_or_load where the durable state is a partially built cache: the
\* background build resumes from the recorded position of each shard.
ResumeBuild(await_finished) ==
    /\ ledger = "present"
    /\ status = "Building"
    /\ ~builder
    /\ builder' = TRUE
    /\ store' = RecoveredStore
    /\ produced' = progress
    /\ awaiting' = PassedAwait(await_finished)
    /\ open' = (open \/ ~PassedAwait(await_finished))
    /\ built' = IF PassedAwait(await_finished)
                THEN PendingBuild
                ELSE BuildReturned(await_finished)
    /\ resumedFrom' = rows
    /\ UNCHANGED <<ledger, status, rows, progress, buffer, wpc, turn, readerVars>>
    /\ loaded' = NoLoad
    /\ UNCHANGED permVars

\* A build_or_load that starts the failed build again.
BuildRaises_Retry(await_finished) ==
    /\ ledger = "present"
    /\ status = "Failed"
    /\ status' = "Building"
    /\ builder' = TRUE
    /\ produced' = progress
    /\ built' = BuildReturned(await_finished)
    /\ open' = TRUE
    /\ UNCHANGED <<ledger, rows, progress, store, buffer, wpc, turn>>
    /\ UNCHANGED <<awaiting, loaded, readerVars>>
    /\ UNCHANGED resumedFrom
    /\ UNCHANGED permVars

\* build_or_load where the ledger records a Failed cache or cannot be read:
\* the error is raised to the caller, no build starts.
BuildRaises(await_finished) ==
    /\ \/ ledger = "present" /\ status = "Failed"
       \/ ledger = "corrupt"
    /\ rpc = "idle"
    /\ built' = BuildRaised(await_finished,
                    IF ledger = "corrupt" THEN "CorruptionError" ELSE "ProcessingFailure")
    /\ UNCHANGED <<ledger, builderVars, awaiting, open, readerVars>>
    /\ loaded' = NoLoad
    /\ UNCHANGED resumedFrom
    /\ UNCHANGED permVars

\* A load that goes through the build: the processor runs over the source
\* again, whatever the ledger records.
Load_Rebuild ==
    /\ rpc = "idle"
    /\ loaded' = [seen |-> ledger, result |-> load]
    /\ open' = (open \/ load.outcome = "ok")
    /\ built' = Forgotten(built)
    /\ builder' = (builder \/ load.outcome = "ok")
    /\ produced' = IF load.outcome = "ok" THEN [s \in Shards |-> 0] ELSE produced
    /\ UNCHANGED <<ledger, status, rows, progress, store, buffer, wpc, turn>>
    /\ UNCHANGED <<awaiting, resumedFrom, readerVars>>
    /\ UNCHANGED permVars

\* ProcessedAudioCache.load(cache_dir)
Load ==
    /\ rpc = "idle"
    /\ loaded' = [seen |-> ledger, result |-> load]
    /\ open' = (open \/ load.outcome = "ok")
    /\ UNCHANGED <<ledger, builderVars, awaiting, readerVars>>
    /\ built' = Forgotten(built)
    /\ UNCHANGED resumedFrom
    /\ UNCHANGED permVars

Splits == {"train", "validation"}

\* What get_shard_source(split) gives: None where the split has no data, a
\* source, or the ValueError of a split it does not know.
Sources == {"None", "source", "ValueError"}

\* An except clause that catches every exception of load.
Caught_AnyException(outcome) == outcome # "ok"

\* except FileNotFoundError: pass
Caught(outcome) == outcome = "FileNotFoundError"

\* await_finished=(split == "validation")
AwaitOfSplit(split) == split = "validation"

\* AudioIODatasetConfig.build_or_load_cache(split): what load returns is
\* returned and what it raises is raised, but for a FileNotFoundError, after
\* which the split's source is fetched and, if there is one, build_or_load is
\* called on it.
build_or_load_cache(split, source) ==
    /\ rpc = "idle"
    /\ IF load.outcome = "ok" \/ ~Caught(load.outcome)
       THEN /\ Load
            /\ cached' = [via |-> "load", split |-> split, source |-> "none"]
       ELSE IF source # "source"
       THEN /\ Load
            /\ cached' = [via |-> "source", split |-> split, source |-> source]
       ELSE /\ \/ StartBuild(AwaitOfSplit(split))
               \/ ResumeBuild(AwaitOfSplit(split))
               \/ BuildRaises(AwaitOfSplit(split))
            /\ cached' = [via |-> "build", split |-> split, source |-> source]

Pending == [outcome |-> "pending", value |-> <<>>]

\* What the latest build_or_load_cache gave its caller.
CachedResult ==
    CASE cached.via = "load" -> loaded.result
      [] cached.via = "source" ->
            IF cached.source = "None" THEN Returned("None") ELSE Raised(cached.source)
      [] cached.via = "build" ->
            IF built.state = "pending" THEN Pending ELSE built.result
      [] OTHER -> Raised("none")

\* A reader calls get_batch: the batch (or the error) comes back at once, or
\* the call suspends.
GetBatch ==
    /\ open
    /\ rpc = "idle"
    /\ \E indices \in Requests :
          /\ rreq' = indices
          /\ LET r == get_batch(indices)
             IN  IF r = Suspended
                 THEN rpc' = "waiting" /\ rres' = NoResult
                 ELSE rpc' = "returned" /\ rres' = r
    /\ UNCHANGED <<ledger, builderVars, awaiting, open>>
    /\ loaded' = NoLoad
    /\ built' = Forgotten(built)
    /\ UNCHANGED resumedFrom
    /\ cached' = NoCached
    /\ UNCHANGED permVars

\* A suspended get_batch is resumed once it can be answered.
Resume ==
    /\ rpc = "waiting"
    /\ get_batch(rreq) # Suspended
    /\ rpc' = "resumed"
    /\ rres' = get_batch(rreq)
    /\ UNCHANGED <<ledger, builderVars, awaiting, open, loaded, rreq>>
    /\ UNCHANGED built
    /\ UNCHANGED resumedFrom
    /\ UNCHANGED cached
    /\ UNCHANGED permVars

\* The reader takes the result.
TakeBatch ==
    /\ rpc \in {"returned", "resumed"}
    /\ rpc' = "idle"
    /\ rreq' = <<>>
    /\ rres' = NoResult
    /\ UNCHANGED <<ledger, builderVars, awaiting, open, loaded>>
    /\ UNCHANGED built
    /\ UNCHANGED resumedFrom
    /\ UNCHANGED cached
    /\ UNCHANGED permVars

Init ==
    /\ lengths = SmallLengths
    /\ InitPerm
    /\ InitCache("absent")

InitWide ==
    /\ lengths = WideLengths
    /\ InitPerm
    /\ InitCache("absent")

\* What an earlier run that built the cache to its end has left.
FinishedStore == [i \in 1..TotalItems |-> Processed(ItemAt(i - 1)[1], ItemAt(i - 1)[2])]

InitFinished ==
    /\ ledger = "present"
    /\ status = "Finished"
    /\ rows = TotalItems
    /\ progress = [s \in Shards |-> ShardLen]
    /\ store = FinishedStore
    /\ produced = [s \in Shards |-> ShardLen]
    /\ buffer = [s \in Shards |-> <<>>]
    /\ wpc = "idle"
    /\ turn = 1
    /\ builder = FALSE
    /\ awaiting = FALSE
    /\ open = FALSE
    /\ loaded = NoLoad
    /\ built = NoBuild
    /\ resumedFrom = -1
    /\ cached = NoCached
    /\ rpc = "idle"
    /\ rreq = <<>>
    /\ rres = NoResult

\* The cache directory is empty, holds a ledger that cannot be read, or holds
\* a cache that an earlier run finished.
InitCacheDir ==
    /\ lengths = {}
    /\ InitPerm
    /\ \/ \E l \in {"absent", "corrupt"} : InitCache(l)
       \/ InitFinished

Next ==
    \/ \E i \in Inst, n \in lengths, k \in Seeds : Construct(i, n, k)
    \/ \E i \in Inst : LoopBody(i)
    \/ \E i \in Inst : LoopExit(i)
    \/ \E i \in Inst : ScalarCall(i)
    \/ \E i \in Inst : BatchCall(i)
    \/ Return

NextCache ==
    \/ \E await_finished \in BOOLEAN :
          StartBuild(await_finished) /\ cached' = NoCached
    \/ OpenFinished /\ cached' = NoCached
    \/ \E s \in Shards : ProcessChunk(s)
    \/ \E s \in Shards : ProcessorFails(s)
    \/ WriteData
    \/ UpdateLedger
    \/ Finish
    \/ Crash
    \/ \E await_finished \in BOOLEAN :
          ResumeBuild(await_finished) /\ cached' = NoCached
    \/ \E await_finished \in BOOLEAN :
          BuildRaises(await_finished) /\ cached' = NoCached
    \/ Load /\ cached' = NoCached
    \/ \E split \in Splits, source \in Sources : build_or_load_cache(split, source)
    \/ GetBatch
    \/ Resume
    \/ TakeBatch

Spec == Init /\ [][Next]_vars

SpecWide == InitWide /\ [][Next]_vars

SpecCache == InitCacheDir /\ [][NextCache]_vars

(***************************************************************************)
(* Properties of the cache                                                 *)
(***************************************************************************)
\* C7: load on a directory without a ledger raises FileNotFoundError and
\* returns no ProcessedAudioCache object.
C7_LoadNotFound ==
    (loaded.seen = "absent") =>
        /\ loaded.result.outcome = "FileNotFoundError"
        /\ loaded.result.value = <<>>

\* load was called on the empty directory, and no object exists.
C7_Witness ==
    /\ loaded.seen = "absent"
    /\ loaded.result = Raised("FileNotFoundError")
    /\ ~open

\* C8: load on a ledger that is present but unreadable raises the corruption
\* error itself: it is not turned into a not-found error, nothing is returned.
C8_LoadCorrupt ==
    (loaded.seen = "corrupt") =>
        /\ loaded.result.outcome = "CorruptionError"
        /\ loaded.result.value = <<>>
        /\ ~open

C8_Witness ==
    /\ ledger = "corrupt"
    /\ loaded.seen = "corrupt"
    /\ loaded.result = Raised("CorruptionError")

\* C9: no step lowers the value of current_len(), and once
\* final_length_is_known() is true it stays true and the length stays as it is.
C9_LengthMonotone ==
    [][/\ current_len' >= current_len
       /\ final_length_is_known =>
              (final_length_is_known' /\ current_len' = current_len)]_vars

\* A cache built to its end in this run: every commit has happened, the length
\* is final, and a reader that had been suspended was answered.
C9_Witness ==
    /\ open
    /\ produced = [s \in Shards |-> ShardLen]
    /\ final_length_is_known
    /\ current_len = TotalItems
    /\ rpc = "resumed"

ExpectedBatch(indices) ==
    [k \in 1..Len(indices) |->
        Processed(ItemAt(indices[k])[1], ItemAt(indices[k])[2])]

\* C10: a get_batch whose indices are all committed returns in the step of the
\* call (it never suspends), with the processor's output for the source item
\* of each requested index, in the order asked, duplicates included.
C10_CommittedBatch ==
    [][(rpc = "idle" /\ rpc' # "idle" /\ \A k \in 1..Len(rreq') : rreq'[k] < rows) =>
           (rpc' = "returned" /\ rres' = Returned(ExpectedBatch(rreq')))]_vars

\* An out-of-order batch across two shards, answered at once while the build
\* still runs.
C10_Witness ==
    /\ status = "Building"
    /\ rpc = "returned"
    /\ rreq = <<2, 0>>
    /\ rres = Returned(<<Processed(2, 1), Processed(1, 1)>>)

\* The same index asked twice, answered at once while the build still runs.
C10_WitnessDuplicate ==
    /\ status = "Building"
    /\ rpc = "returned"
    /\ rreq = <<1, 1>>
    /\ rres = Returned(<<Processed(1, 2), Processed(1, 2)>>)

\* C11: on a Finished cache a get_batch with an index at or beyond the final
\* length is answered with IndexError: a call made then returns at once, a call
\* suspended earlier is resumed with the error, and no entry is returned.
C11_OutOfRange ==
    [][(/\ status' = "Finished"
        /\ \E k \in 1..Len(rreq') : rreq'[k] >= rows') =>
           /\ (rpc = "idle" /\ rpc' # "idle" /\ status = "Finished") => rpc' = "returned"
           /\ (rpc' \in {"returned", "resumed"}) => rres' = Raised("IndexError")]_vars

\* A batch of a committed index and the final length, asked of a Finished cache.
C11_Witness ==
    /\ status = "Finished"
    /\ rpc = "returned"
    /\ rreq = <<0, TotalItems>>
    /\ rres = Raised("IndexError")

\* The same for a call that was suspended while the build ran.
C11_WitnessResumed ==
    /\ status = "Finished"
    /\ rpc = "resumed"
    /\ rreq = <<TotalItems>>
    /\ rres = Raised("IndexError")

\* The builder's tasks and the event loop that resumes readers keep running;
\* nothing obliges the processor to fail, the process to crash or a caller to
\* call.
FairBuild ==
    /\ \A s \in Shards : WF_vars(ProcessChunk(s))
    /\ WF_vars(WriteData)
    /\ WF_vars(UpdateLedger)
    /\ WF_vars(Finish)
    /\ WF_vars(Resume)

\* The steps that a reader's wait depends on: the builds, the crash, and the
\* reader's own.
NextCacheFair ==
    \/ \E await_finished \in BOOLEAN :
          StartBuild(await_finished) /\ cached' = NoCached
    \/ OpenFinished /\ cached' = NoCached
    \/ \E s \in Shards : ProcessChunk(s)
    \/ \E s \in Shards : ProcessorFails(s)
    \/ WriteData
    \/ UpdateLedger
    \/ Finish
    \/ Crash
    \/ \E await_finished \in BOOLEAN :
          ResumeBuild(await_finished) /\ cached' = NoCached
    \/ GetBatch
    \/ Resume
    \/ TakeBatch

SpecCacheFair == InitCacheDir /\ [][NextCacheFair]_vars /\ FairBuild

C12_WitnessBatch ==
    /\ rpc = "resumed"
    /\ rreq = <<TotalItems - 1, 0>>
    /\ rres = Returned(ExpectedBatch(rreq))

\* The committed entries of shard s, in the order of their indices.
CommittedOf(s) == SelectSeq(SubSeq(store, 1, rows), LAMBDA e : e[2] = s)

Readable(i) == get_batch(<<i>>).outcome = "ok"

\* The items of shard s whose index a reader can read.
ReadableOf(s) ==
    {ItemAt(i)[2] : i \in {j \in 0..(TotalItems - 1) : ItemAt(j)[1] = s /\ Readable(j)}}

\* C13: a Failed cache stays Failed: no step, a repeated build_or_load
\* included, takes it back to Building or starts a builder; its committed
\* length and the committed entries stay as they are, and get_batch returns
\* every committed entry.
C13_FailedTerminal ==
    /\ [][(status = "Failed") =>
              /\ status' = "Failed"
              /\ ~builder'
              /\ rows' = rows
              /\ SubSeq(store', 1, rows) = SubSeq(store, 1, rows)]_vars
    /\ [](status = "Failed" =>
              \A i \in 0..(rows - 1) : get_batch(<<i>>) = Returned(ExpectedBatch(<<i>>)))

\* The build failed after its first commit; build_or_load was called again and
\* raised.
C13_Witness ==
    /\ status = "Failed"
    /\ rows > 0
    /\ Readable(rows - 1)
    /\ built = BuildRaised(FALSE, "ProcessingFailure")

\* C14: the entries committed for a shard are its items 1, 2, ... in this
\* order up to the shard's recorded position, so every commit of a shard lies
\* beyond the earlier ones and the committed set is a prefix of the shard; a
\* reader that can read an index can read the index of every earlier item of
\* the same shard.
C14_ShardPrefix ==
    /\ \A s \in Shards :
          /\ Len(CommittedOf(s)) = progress[s]
          /\ \A n \in 1..Len(CommittedOf(s)) : CommittedOf(s)[n] = Processed(s, n)
    /\ \A s \in Shards : ReadableOf(s) = 1..Cardinality(ReadableOf(s))

\* Shard 1 is committed to its end in two commits while shard 2 is not, and
\* a reader has a batch from both shards.
C14_Witness ==
    /\ status = "Building"
    /\ progress[1] = ShardLen
    /\ progress[2] < ShardLen
    /\ rpc = "returned"
    /\ rres = Returned(ExpectedBatch(rreq))
    /\ {ItemAt(rreq[k])[1] : k \in 1..Len(rreq)} = Shards

\* C15: a build_or_load on a partially built cache resumes its build at the
\* recorded position of every shard and at the recorded length; in every step,
\* those of a resumed build included, the committed entries keep their index
\* and payload and the length does not fall, and the committed entries are at
\* all times the first entries of the one order of an uninterrupted build, so
\* no item is committed twice.
C15_ResumeKeepsCommitted ==
    /\ [][/\ rows' >= rows
           /\ SubSeq(store', 1, rows) = SubSeq(store, 1, rows)
           /\ (status = "Building" /\ ~builder /\ builder') =>
                  /\ rows' = rows
                  /\ produced' = progress
                  /\ progress' = progress
                  /\ Len(store') = rows]_vars
    /\ [](SubSeq(store, 1, rows) = SubSeq(FinishedStore, 1, rows))

\* A build that was resumed after one committed chunk and then ran to its end.
C15_Witness ==
    /\ resumedFrom = ChunkSize
    /\ status = "Finished"
    /\ rows = TotalItems
    /\ store = FinishedStore

\* C16: a build_or_load called with await_finished = true has returned only
\* when the cache is Finished, and is pending for as long as the build runs;
\* called with await_finished = false it returns the object in the step of the
\* call, on a fresh or resumed build while the cache is Building.
C16_AwaitFinished ==
    /\ []((built.await /\ built.state = "returned") => status = "Finished")
    /\ []((awaiting /\ status = "Building") => built = PendingBuild)
    /\ [][(built'.state # "none" /\ built' # built /\ ~built'.await) =>
              /\ built'.state # "pending"
              /\ (built'.state = "returned") =>
                     (open' /\ built'.result = Returned(ProcessedAudioCache("TreeCache")))
              /\ (ledger = "absent" \/ (status = "Building" /\ ~builder)) =>
                     (built' = BuildReturned(FALSE) /\ status' = "Building")]_vars

\* A build_or_load that waited has returned: the build it resumed after the
\* first committed chunk has run to its end.
C16_Witness ==
    /\ built = BuildReturned(TRUE)
    /\ resumedFrom = ChunkSize
    /\ status = "Finished"
    /\ open

\* A build_or_load that did not wait has returned the object of a cache that
\* is still Building, with nothing committed yet.
C16_WitnessImmediate ==
    /\ built = BuildReturned(FALSE)
    /\ status = "Building"
    /\ rows = 0
    /\ open

\* C17: in every state async_len, final_length_is_known, is_finite and
\* current_len of the wrapper give what the same method of the wrapped cache
\* gives; a get_batch through the wrapper returns, raises or suspends as the
\* wrapped cache does on the same indices, at the call and when it is resumed;
\* and the object build_or_load or load returns holds the wrapped cache and
\* nothing else.
C17_WrapperDelegates ==
    /\ [](/\ async_len = TreeCache_async_len
          /\ final_length_is_known = TreeCache_final_length_is_known
          /\ is_finite = TreeCache_is_finite
          /\ current_len = TreeCache_current_len
          /\ \A call \in {built, loaded} :
                 call.result.outcome = "ok" => call.result.value = [cache |-> "TreeCache"])
    /\ [][/\ (rpc = "idle" /\ rpc' # "idle") =>
                  IF TreeCache_get_batch(rreq') = Suspended
                  THEN rpc' = "waiting"
                  ELSE rpc' = "returned" /\ rres' = TreeCache_get_batch(rreq')
           /\ (rpc = "waiting" /\ rpc' = "resumed") =>
                  rres' = TreeCache_get_batch(rreq)]_vars

\* While the build runs a suspended reader has been resumed with its batch
\* through the wrapper, and async_len of the wrapper is still suspended.
C17_Witness ==
    /\ status = "Building"
    /\ open
    /\ rpc = "resumed"
    /\ rres = Returned(ExpectedBatch(rreq))
    /\ async_len = Suspended
    /\ current_len > 0

\* C18: a load of a cache that was built to its end returns the object, and
\* on it async_len() is the number of source items and final_length_is_known()
\* is true; the load starts no builder, and on a Finished cache no step runs
\* the processor or writes data.
C18_LoadFinished ==
    /\ [][(loaded' # loaded /\ loaded'.seen # "none" /\ status = "Finished") =>
              /\ loaded'.result = Returned(ProcessedAudioCache("TreeCache"))
              /\ open'
              /\ async_len' = Returned(TotalItems)
              /\ final_length_is_known']_vars
    /\ [][(status = "Finished") =>
              (~builder' /\ produced' = produced /\ store' = store)]_vars

\* A cache whose build was interrupted, resumed and finished has been opened
\* with load.
C18_Witness ==
    /\ resumedFrom = ChunkSize
    /\ status = "Finished"
    /\ loaded = [seen |-> "present", result |-> Returned(ProcessedAudioCache("TreeCache"))]
    /\ async_len = Returned(TotalItems)
    /\ final_length_is_known
    /\ open

\* The same for a cache that an earlier run finished: load is the first call.
C18_WitnessEarlierRun ==
    /\ resumedFrom = -1
    /\ built = NoBuild
    /\ status = "Finished"
    /\ loaded.result.outcome = "ok"
    /\ async_len = Returned(NumShards * ShardLen)

\* C20: the recorded length never exceeds what the data files hold, and every
\* entry below it is in the data files with the processor's output for its
\* item, in every state, those a crash between the two writes of a commit
\* leaves included; the length grows only over data that was written before;
\* and a chunk that is written but not recorded is not committed: current_len
\* does not count it and no reader can read it.
C20_CrashSafe ==
    /\ [](/\ rows <= Len(store)
          /\ \A i \in 1..rows : store[i] = FinishedStore[i]
          /\ current_len = rows
          /\ \A i \in rows..(Len(store) - 1) : ~Readable(i))
    /\ [][rows' > rows =>
              (Len(store) >= rows' /\ SubSeq(store', 1, rows') = SubSeq(store, 1, rows'))]_vars

\* The process stopped between the two writes of the second commit: the data
\* files hold a whole chunk that the ledger does not record.
C20_Witness ==
    /\ ~builder
    /\ status = "Building"
    /\ rows = ChunkSize
    /\ Len(store) = rows + ChunkSize
    /\ built = NoBuild

\* C21: a build_or_load_cache whose load succeeds returns the loaded object,
\* one whose load raises anything but FileNotFoundError raises that error, and
\* one whose load raises FileNotFoundError for a split without a source
\* returns None: in these three no build is started and the directory stays
\* as it is.  build_or_load is reached only after a FileNotFoundError of load
\* and with a source.
NoBuildStep ==
    /\ builder' = builder
    /\ awaiting' = awaiting
    /\ built' = Forgotten(built)
    /\ UNCHANGED <<ledger, status, rows, progress, store, produced, resumedFrom>>

C21_LoadFirst ==
    [][(cached' # cached /\ cached'.via # "none") =>
          /\ (load.outcome = "ok") =>
                 /\ cached'.via = "load"
                 /\ CachedResult' = Returned(ProcessedAudioCache("TreeCache"))
                 /\ open'
                 /\ NoBuildStep
          /\ (load.outcome \notin {"ok", "FileNotFoundError"}) =>
                 /\ cached'.via = "load"
                 /\ CachedResult' = Raised(load.outcome)
                 /\ open' = open
                 /\ NoBuildStep
          /\ (load.outcome = "FileNotFoundError") =>
                 /\ cached'.via \in {"source", "build"}
                 /\ (cached'.source = "None") =>
                        /\ CachedResult' = Returned("None")
                        /\ open' = open
                        /\ NoBuildStep
          /\ (cached'.via = "build") =>
                 /\ load.outcome = "FileNotFoundError"
                 /\ cached'.source = "source"
                 /\ built'.await = AwaitOfSplit(cached'.split)]_vars

\* The directory was empty and the split has a source: the build runs and
\* the object was returned at once (the split is not "validation").
C21_Witness ==
    /\ cached = [via |-> "build", split |-> "train", source |-> "source"]
    /\ CachedResult = Returned(ProcessedAudioCache("TreeCache"))
    /\ status = "Building"
    /\ builder
    /\ open

\* A Finished cache was loaded: no builder, the loaded object is returned.
C21_WitnessLoaded ==
    /\ cached.via = "load"
    /\ CachedResult = Returned(ProcessedAudioCache("TreeCache"))
    /\ status = "Finished"
    /\ built = NoBuild
    /\ open

\* The ledger cannot be read: the error of load has reached the caller.
C21_WitnessPropagated ==
    /\ cached.via = "load"
    /\ CachedResult = Raised("CorruptionError")
    /\ ledger = "corrupt"
    /\ ~builder

\* The directory is empty and the split has no source: None, and no ledger.
C21_WitnessNone ==
    /\ cached.via = "source"
    /\ CachedResult = Returned("None")
    /\ ledger = "absent"
    /\ ~builder
    /\ ~open

(***************************************************************************)
(* The same constructor with randint left open: a draw may return any      *)
(* value of its range.  iters saturates, so that the loop is never cut.    *)
(***************************************************************************)
ConstructAny(i, n, x, y) ==
    /\ Idle
    /\ pc[i] = "new"
    /\ x \in RandintRange(1, n)
    /\ y \in RandintRange(0, n)
    /\ length' = [length EXCEPT ![i] = n]
    /\ a' = [a EXCEPT ![i] = x]
    /\ b' = [b EXCEPT ![i] = y]
    /\ pc' = [pc EXCEPT ![i] = "loop"]
    /\ UNCHANGED <<lengths, prng_key, key, iters, ret>>
    /\ UNCHANGED cacheVars

Redraw(i, x) ==
    /\ pc[i] = "loop"
    /\ LoopCond(a[i], length[i])
    /\ x \in RandintRange(1, length[i])
    /\ a' = [a EXCEPT ![i] = x]
    /\ iters' = [iters EXCEPT ![i] = IF @ < MaxIter THEN @ + 1 ELSE @]
    /\ UNCHANGED <<lengths, pc, length, prng_key, b, key, ret>>
    /\ UNCHANGED cacheVars

\* The objects share nothing: one of them is enough to see a loop end.
FairInst == {1}

NextFair ==
    \/ \E i \in FairInst, n \in lengths : \E x, y \in 0..n : ConstructAny(i, n, x, y)
    \/ \E i \in FairInst : \E x \in 1..length[i] : Redraw(i, x)
    \/ \E i \in FairInst : LoopExit(i)

\* Fair draws: a value the draw can produce is not avoided forever, and a loop
\* whose condition fails is left.
FairDraws ==
    \A i \in FairInst :
        /\ WF_vars(LoopExit(i))
        /\ \A x \in 1..(MaxLen + 1) : SF_vars(Redraw(i, x))

SpecFair == Init /\ [][NextFair]_vars /\ FairDraws

(***************************************************************************)
(* Properties of Permutation                                               *)
(***************************************************************************)
Frozen(i) == pc[i] = "frozen"

ScalarValue(i, x) == CallScalar(a[i], b[i], length[i], x)

SameInputs(i, j) == length[i] = length[j] /\ prng_key[i] = prng_key[j]

\* C1: for every length > 1 and every seed the constructed permutation is a
\* bijection on [0, length): every index is accepted, no value is missing from
\* the image and no value is hit twice.
C1_Bijection ==
    \A i \in Inst :
        (Frozen(i) /\ length[i] > 1) =>
            LET D == 0..(length[i] - 1)
            IN  /\ \A x \in D : ScalarValue(i, x).outcome = "ok"
                /\ {ScalarValue(i, x).value : x \in D} = D
                /\ \A x, y \in D : x # y => ScalarValue(i, x).value # ScalarValue(i, y).value

\* A composite length whose first draw was not invertible: a was redrawn, and
\* the permutation was applied.
C1_Witness ==
    \E i \in Inst :
        /\ Frozen(i) /\ length[i] = 4 /\ iters[i] > 0
        /\ ret.inst = i /\ ret.form = "scalar" /\ ret.result.outcome = "ok"

\* C2: two permutations constructed independently from the same (length, seed)
\* have the same a and b, and every call with the same index, first or repeated,
\* on either of them, gives the same outcome.
C2_Deterministic ==
    /\ \A i, j \in Inst :
          (Frozen(i) /\ Frozen(j) /\ SameInputs(i, j)) =>
              /\ a[i] = a[j]
              /\ b[i] = b[j]
              /\ \A x \in IndexSamples(length[i]) : ScalarValue(i, x) = ScalarValue(j, x)
    /\ \A j \in Inst :
          (ret.form # "none" /\ Frozen(j) /\ SameInputs(ret.inst, j)) =>
              IF ret.form = "scalar"
              THEN ScalarValue(j, ret.arg[1]) = ret.result
              ELSE CallBatch(a[j], b[j], length[j], ret.arg, ret.width) = ret.result

\* Both objects built from the same length and seed, after resampling, and the
\* second one called.
C2_Witness ==
    /\ Frozen(1) /\ Frozen(2) /\ SameInputs(1, 2)
    /\ length[1] = 4 /\ iters[1] > 0 /\ iters[2] > 0
    /\ ret.inst = 2 /\ ret.form = "scalar" /\ ret.result.outcome = "ok"

\* C3: a call with an index outside [0, length), scalar or as an element of an
\* array, raises IndexError and returns no value.
C3_OutOfRangeRaises ==
    (ret.form # "none") =>
        LET n == length[ret.inst]
        IN  (\E k \in 1..Len(ret.arg) : ret.arg[k] < 0 \/ ret.arg[k] >= n) =>
                /\ ret.result.outcome = "IndexError"
                /\ ret.result.value = <<>>

\* An array with a valid and a negative element was refused.
C3_Witness ==
    /\ ret.form = "batch" /\ Len(ret.arg) = 2
    /\ ret.arg[1] = 0 /\ ret.arg[2] = -1
    /\ ret.result.outcome = "IndexError"

\* C4: for length 1 the loop condition is false as soon as the loop is entered
\* (loop_body never runs, construction ends), and the permutation maps 0 to 0.
C4_LengthOne ==
    \A i \in Inst :
        (length[i] = 1) =>
            /\ pc[i] = "loop" => (~LoopCond(a[i], length[i]) /\ iters[i] = 0)
            /\ Frozen(i) => (iters[i] = 0 /\ ScalarValue(i, 0) = Returned(0))
            /\ (ret.form = "scalar" /\ ret.inst = i /\ ret.arg = <<0>>) => ret.result = Returned(0)

C4_Witness ==
    \E i \in Inst :
        /\ Frozen(i) /\ length[i] = 1
        /\ ret.form = "scalar" /\ ret.inst = i /\ ret.arg = <<0>> /\ ret.result = Returned(0)

\* C5: with fair draws, for every length > 1 the resampling loop ends:
\* construction reaches the frozen state.
C5_LoopTerminates ==
    \A i \in Inst : (pc[i] = "loop" /\ length[i] > 1) ~> Frozen(i)

\* A construction that redrew a at least twice before it froze.
C5_Witness ==
    \E i \in Inst : Frozen(i) /\ length[i] = 4 /\ iters[i] >= 2

C6_BatchEqualsScalar ==
    (ret.form = "batch" /\ ret.result.outcome = "ok") =>
        /\ Len(ret.result.value) = Len(ret.arg)
        /\ \A k \in 1..Len(ret.arg) :
              Returned(ret.result.value[k]) = ScalarValue(ret.inst, ret.arg[k])

\* C22: a batched call on an array of 32-bit indices, all valid, returns for
\* every index the exact value of (a * index + b) mod length, a value of
\* [0, length): the product and the sum do not leave the 32 bits of the
\* array's elements.
C22_NoOverflow ==
    (ret.form = "batch" /\ ret.width = 32 /\ ret.result.outcome = "ok") =>
        \A k \in 1..Len(ret.arg) :
            LET i == ret.inst
            IN  /\ ret.result.value[k] \in 0..(length[i] - 1)
                /\ ret.result.value[k] = AffineExact(a[i], b[i], length[i], ret.arg[k])

====
